---------------------------- MODULE Spec2Model ----------------------------
(***************************************************************************)
(* A model of telemetry_collector.py: collect_telemetry (priming, the      *)
(* sampling loop, the KeyboardInterrupt handler) and write_csv.            *)
(*                                                                         *)
(* Conventions of the model                                                *)
(*   - pc is the statement collect_telemetry / write_csv executes next.    *)
(*   - Values that Python may hold as None (a process name, a memory       *)
(*     share, a csv cell) are options: <<>> is None, <<v>> is the value v. *)
(*   - Numbers rounded to two decimals (round(x, 2)) are kept as integers  *)
(*     in hundredths: 20 is 0.20.  An unrounded rate is a fraction         *)
(*     [num, den].                                                         *)
(*   - psutil is the environment: every psutil call either returns a value *)
(*     the host picks, or raises.                                          *)
(***************************************************************************)
EXTENDS Integers, Sequences, FiniteSets, TLC

VARIABLES
    duration,      \* collect_telemetry argument
    interval,      \* collect_telemetry argument
    label,         \* collect_telemetry argument (hw_label)
    pc,            \* next statement
    samples,       \* duration // interval, 0 until line 125 has run
    i,             \* loop index of `for i in range(samples)`
    logs,          \* the list of samples
    net_prev,      \* previous psutil.net_io_counters()
    disk_prev,     \* previous psutil.disk_io_counters()
    tick,          \* locals of the current iteration (ts .. disk_w)
    piter,         \* what psutil.process_iter() still has to yield
    processes,     \* the list `processes` of the current iteration
    top_cpu,       \* local top_cpu
    top_mem,       \* local top_mem
    clock,         \* host: wall clock, seconds
    battery,       \* host: what psutil.sensors_battery() reports
    os_counters,   \* host: cumulative disk / network byte counters
    file,          \* the csv file: [state, header, rows]
    w,             \* locals of write_csv: [fields, k, arg]
    exc,           \* exception that left collect_telemetry, or "none"
    reported,      \* what write_csv's caller learns from the call
    hist           \* history: what happened in the run (not program state)

vars == <<duration, interval, label, pc, samples, i, logs, net_prev, disk_prev,
          tick, piter, processes, top_cpu, top_mem, clock, battery, os_counters,
          file,
          w, exc, reported, hist>>

----------------------------------------------------------------------------
(* Bounds of the model                                                     *)

MaxDuration == 10
MaxProcs == 11

(* Program constants                                                       *)

SliceLen == 10
SlotCount == 10
KiB == 1024

Intervals == {4, 5}
Labels == {"Intel_Core_i5-RAM16GB"}

None == <<>>
Some(v) == <<v>>
Blank == <<>>

Min(a, b) == IF a <= b THEN a ELSE b

----------------------------------------------------------------------------
(* round(x, 2) of the fraction num / den (den > 0), in hundredths.         *)
(* Python rounds the double to the nearest value with two decimals; a tie  *)
(* that the double holds exactly goes to the even neighbour.               *)

Round2(num, den) ==
    LET scaled == num * 100
        q == scaled \div den
        r == scaled - q * den
    IN  IF 2 * r < den THEN q
        ELSE IF 2 * r > den THEN q + 1
        ELSE IF q % 2 = 0 THEN q ELSE q + 1

----------------------------------------------------------------------------
(* The host (psutil).                                                      *)

BootCounters ==
    [read_bytes |-> 4096, write_bytes |-> 2048,
     bytes_sent |-> 1024, bytes_recv |-> 8192]

(* A counter reset: the totals start again from zero.                      *)
ResetCounters ==
    [read_bytes |-> 0, write_bytes |-> 0, bytes_sent |-> 0, bytes_recv |-> 0]

(* Bytes the host moves while one blocking cpu_percent(interval) runs.     *)
Traffic ==
    { [read_bytes |-> 1024, write_bytes |-> 1536, bytes_sent |-> 512, bytes_recv |-> 5120] }

Advance(c, t) ==
    [read_bytes |-> c.read_bytes + t.read_bytes,
     write_bytes |-> c.write_bytes + t.write_bytes,
     bytes_sent |-> c.bytes_sent + t.bytes_sent,
     bytes_recv |-> c.bytes_recv + t.bytes_recv]

NetOf(c) == [bytes_sent |-> c.bytes_sent, bytes_recv |-> c.bytes_recv]
DiskOf(c) == [read_bytes |-> c.read_bytes, write_bytes |-> c.write_bytes]

BatteryReadings == {"absent", "plugged"}
CpuReadings == {50}
MemReadings == {[percent |-> 40, used_mib |-> 1540]}

(* One process as psutil.process_iter yields it.  raises: cpu_percent(None) *)
(* raises NoSuchProcess / AccessDenied.  name and mem are None when the     *)
(* attribute could not be read (process_iter(attrs) fills in None).  In the *)
(* "idle" shape every process reports a cpu share of 0.                     *)
ProcSnapshot(p, shape) ==
    [pid |-> p,
     name |-> IF shape = "denied" /\ p = 1 THEN None
              ELSE Some(IF p % 2 = 0 THEN "python" ELSE "svchost"),
     cpu |-> IF shape = "idle" THEN 0 ELSE (p * 3) % 4,
     mem |-> IF shape = "denied" /\ p = 1 THEN None ELSE Some((p * 5) % 7),
     raises |-> (shape = "flaky" /\ p % 5 = 2)]

Enumeration(n, shape) == [p \in 1..n |-> ProcSnapshot(p, shape)]

Enumerations ==
    { Enumeration(0, "ok"), Enumeration(1, "denied"), Enumeration(3, "flaky"),
      Enumeration(3, "denied"), Enumeration(MaxProcs, "ok"),
      Enumeration(MaxProcs, "idle") }

----------------------------------------------------------------------------
(* sorted(processes, key=..., reverse=True): a stable sort, descending.    *)

KeyOf(x, key) == IF key = "cpu" THEN x.cpu ELSE x.mem[1]

(* An insertion that puts x before the elements it ties with.              *)
RECURSIVE InsertDescBeforeTies(_, _, _)
InsertDescBeforeTies(s, x, key) ==
    IF s = <<>> THEN <<x>>
    ELSE IF KeyOf(Head(s), key) > KeyOf(x, key)
         THEN <<Head(s)>> \o InsertDescBeforeTies(Tail(s), x, key)
         ELSE <<x>> \o s

RECURSIVE InsertDesc(_, _, _)
InsertDesc(s, x, key) ==
    IF s = <<>> THEN <<x>>
    ELSE IF KeyOf(Head(s), key) >= KeyOf(x, key)
         THEN <<Head(s)>> \o InsertDesc(Tail(s), x, key)
         ELSE <<x>> \o s

RECURSIVE SortedDesc(_, _)
SortedDesc(s, key) ==
    IF s = <<>> THEN <<>>
    ELSE InsertDesc(SortedDesc(SubSeq(s, 1, Len(s) - 1), key), s[Len(s)], key)

Slice(s, n) == SubSeq(s, 1, Min(n, Len(s)))

(* Comparing None with a number, or None with None, raises TypeError; a    *)
(* sort of two or more elements compares every element at least once.      *)
SortRaises(s) == Len(s) >= 2 /\ \E k \in 1..Len(s) : s[k].mem = None

TopCpuUnsliced(s) == SortedDesc(s, "cpu")

TopCpu(s) == Slice(SortedDesc(s, "cpu"), SliceLen)

TopMemOfFirst(s) == SortedDesc(Slice(s, SliceLen), "mem")

TopMem(s) == Slice(SortedDesc(s, "mem"), SliceLen)

(* What the host's counters can be after one blocking read.                *)
NextCounters(c) == {Advance(c, t) : t \in Traffic} \cup {ResetCounters}

----------------------------------------------------------------------------
(* write_csv: the column list, the row dictionary, the line written.       *)
(* A column name is <<group, slot, field>>: f"top_cpu_{i}_pid" is          *)
(* <<"top_cpu", i, "pid">>, a base column is <<"base", 0, name>>.          *)

Col(g, n, f) == <<g, n, f>>

BaseNames ==
    << "timestamp_unix", "timestamp_human", "hw_label",
       "cpu_percent", "ram_percent", "ram_used_gb",
       "disk_read_kb_s", "disk_write_kb_s",
       "net_sent_kb_s", "net_recv_kb_s",
       "charging" >>

BaseFields == [k \in 1..Len(BaseNames) |-> Col("base", 0, BaseNames[k])]

SlotFields(n) ==
    << Col("top_cpu", n, "pid"), Col("top_cpu", n, "name"), Col("top_cpu", n, "value"),
       Col("top_mem", n, "pid"), Col("top_mem", n, "name"), Col("top_mem", n, "value") >>

RECURSIVE FieldsUpTo(_)
FieldsUpTo(n) == IF n = 0 THEN BaseFields ELSE FieldsUpTo(n - 1) \o SlotFields(n)

(* All top_cpu triples first, all top_mem triples after them.              *)
RECURSIVE GroupUpTo(_, _)
GroupUpTo(g, n) ==
    IF n = 0 THEN <<>>
    ELSE GroupUpTo(g, n - 1)
         \o <<Col(g, n, "pid"), Col(g, n, "name"), Col(g, n, "value")>>

FieldsGrouped ==
    BaseFields \o GroupUpTo("top_cpu", SlotCount) \o GroupUpTo("top_mem", SlotCount)

Fields == FieldsUpTo(SlotCount)

Range(s) == {s[k] : k \in 1..Len(s)}

BaseRow(log, lbl) ==
    Col("base", 0, "timestamp_unix") :> Some(log.ts)
    @@ Col("base", 0, "timestamp_human") :> Some(log.time)
    @@ Col("base", 0, "hw_label") :> Some(lbl)
    @@ Col("base", 0, "cpu_percent") :> Some(log.cpu)
    @@ Col("base", 0, "ram_percent") :> Some(log.ram)
    @@ Col("base", 0, "ram_used_gb") :> Some(log.ram_gb)
    @@ Col("base", 0, "disk_read_kb_s") :> Some(log.disk_r)
    @@ Col("base", 0, "disk_write_kb_s") :> Some(log.disk_w)
    @@ Col("base", 0, "net_sent_kb_s") :> Some(log.net_s)
    @@ Col("base", 0, "net_recv_kb_s") :> Some(log.net_r)
    @@ Col("base", 0, "charging") :> Some(log.charging)

SlotKeys(g, n) == {Col(g, k, f) : k \in 1..n, f \in {"pid", "name", "value"}}

SlotRow(g, top) ==
    [c \in SlotKeys(g, Len(top)) |->
        IF c[3] = "pid" THEN Some(top[c[2]].pid)
        ELSE IF c[3] = "name" THEN top[c[2]].name
        ELSE IF g = "top_cpu" THEN Some(top[c[2]].cpu)
        ELSE top[c[2]].mem]

RowDict(log, lbl) ==
    BaseRow(log, lbl) @@ SlotRow("top_cpu", log.top_cpu) @@ SlotRow("top_mem", log.top_mem)

(* csv writes None as the empty string.                                    *)
Cell(v) == IF v = None THEN Blank ELSE v

(* A writer that leaves out the cells of keys the row lacks.               *)
RowLineOmits(row, fields) ==
    LET present == SelectSeq(fields, LAMBDA c : c \in DOMAIN row)
    IN  [k \in 1..Len(present) |-> Cell(row[present[k]])]

(* DictWriter.writerow: a key the row lacks is written as restval (""); a  *)
(* key of the row that is no field name raises ValueError.                 *)
RowLine(row, fields) ==
    [k \in 1..Len(fields) |->
        IF fields[k] \in DOMAIN row THEN Cell(row[fields[k]]) ELSE Blank]

RowRaises(row, fields) == ~(DOMAIN row \subseteq Range(fields))

----------------------------------------------------------------------------
(* Locals of one iteration before they are assigned.                       *)

HumanTime(t) == [h |-> (t \div 3600) % 24, m |-> (t \div 60) % 60, s |-> t % 60]

NoCounters == ResetCounters
NoTick ==
    [ts |-> 0, time_h |-> HumanTime(0), charging |-> FALSE, cpu |-> 0,
     mem |-> [percent |-> 0, used_mib |-> 0],
     net_now |-> NetOf(NoCounters), disk_now |-> DiskOf(NoCounters),
     net_sent |-> [num |-> 0, den |-> 1], net_recv |-> [num |-> 0, den |-> 1],
     disk_r |-> [num |-> 0, den |-> 1], disk_w |-> [num |-> 0, den |-> 1]]

NoFile == [state |-> "absent", header |-> <<>>, rows |-> <<>>]
NoWrite == [fields |-> <<>>, k |-> 0, arg |-> <<>>, label |-> ""]

NoHist ==
    [cancel |-> None, failed |-> None, ticks |-> 0, writes |-> 0,
     counters |-> <<>>, okreads |-> 0, nread |-> <<>>]

inputs == <<duration, interval, label>>
loopv == <<samples, i, logs, net_prev, disk_prev>>
tickv == <<tick, piter, processes, top_cpu, top_mem>>
hostv == <<clock, battery, os_counters>>
writev == <<file, w, reported>>

Init ==
    /\ interval \in Intervals
    /\ duration \in 0..MaxDuration
    /\ label \in Labels
    /\ pc = "prime_cpu"
    /\ samples = 0
    /\ i = 0
    /\ logs = <<>>
    /\ net_prev = NetOf(NoCounters)
    /\ disk_prev = DiskOf(NoCounters)
    /\ tick = NoTick
    /\ piter = <<>>
    /\ processes = <<>>
    /\ top_cpu = <<>>
    /\ top_mem = <<>>
    /\ clock = 0
    /\ battery \in BatteryReadings
    /\ os_counters = BootCounters
    /\ file = NoFile
    /\ w = NoWrite
    /\ exc = "none"
    /\ reported = "none"
    /\ hist = NoHist

----------------------------------------------------------------------------
(* collect_telemetry, lines 114-125: priming.                              *)

PrimingPcs == {"prime_cpu", "prime_iter", "prime_proc", "prime_net", "prime_disk", "samples"}
RunningPcs == {"loop", "ts", "battery", "cpu", "mem", "net", "disk", "rates",
               "iter", "proc", "rank", "append"}
WritingPcs == {"write", "open", "header", "row", "close"}
MetricPcs == {"prime_cpu", "prime_iter", "prime_net", "prime_disk",
              "battery", "cpu", "mem", "net", "disk", "iter"}

Phase(p) ==
    IF p \in PrimingPcs THEN "priming"
    ELSE IF p \in RunningPcs THEN "running"
    ELSE "writing"

(* line 115: psutil.cpu_percent(None); the value is dropped.               *)
PrimeCpu ==
    /\ pc = "prime_cpu"
    /\ pc' = "prime_iter"
    /\ UNCHANGED <<inputs, loopv, tickv, hostv, writev, exc, hist>>

(* line 116: psutil.process_iter().                                        *)
PrimeIter ==
    /\ pc = "prime_iter"
    /\ \E e \in Enumerations :
        /\ piter' = e
        /\ pc' = IF e = <<>> THEN "prime_net" ELSE "prime_proc"
    /\ UNCHANGED <<inputs, loopv, tick, processes, top_cpu, top_mem, hostv, writev,
                   exc, hist>>

(* A priming pass without the try of lines 117-120: a process whose read   *)
(* raises ends the run.                                                    *)
PrimeProcAborts ==
    /\ pc = "prime_proc"
    /\ piter # <<>>
    /\ IF Head(piter).raises
       THEN /\ exc' = "Error"
            /\ pc' = "crashed"
            /\ UNCHANGED piter
       ELSE /\ piter' = Tail(piter)
            /\ pc' = IF Tail(piter) = <<>> THEN "prime_net" ELSE "prime_proc"
            /\ UNCHANGED exc
    /\ UNCHANGED <<inputs, loopv, tick, processes, top_cpu, top_mem, hostv, writev, hist>>

(* lines 117-120: p.cpu_percent(None) in try / bare except: pass.  Whether *)
(* the call returns or raises, the loop goes on and nothing is kept.       *)
PrimeProc ==
    /\ pc = "prime_proc"
    /\ piter # <<>>
    /\ piter' = Tail(piter)
    /\ pc' = IF Tail(piter) = <<>> THEN "prime_net" ELSE "prime_proc"
    /\ UNCHANGED <<inputs, loopv, tick, processes, top_cpu, top_mem, hostv, writev,
                   exc, hist>>

(* line 122: net_prev = psutil.net_io_counters()                           *)
PrimeNet ==
    /\ pc = "prime_net"
    /\ net_prev' = NetOf(os_counters)
    /\ pc' = "prime_disk"
    /\ UNCHANGED <<inputs, samples, i, logs, disk_prev, tickv, hostv, writev, exc, hist>>

(* line 123: disk_prev = psutil.disk_io_counters()                         *)
PrimeDisk ==
    /\ pc = "prime_disk"
    /\ disk_prev' = DiskOf(os_counters)
    /\ hist' = [hist EXCEPT !.counters =
                    Append(@, [net |-> net_prev, disk |-> DiskOf(os_counters)])]
    /\ pc' = "samples"
    /\ UNCHANGED <<inputs, samples, i, logs, net_prev, tickv, hostv, writev, exc>>

(* line 125: samples = duration // interval                                *)
SampleCountRoundsUp(d, iv) == (d + iv - 1) \div iv

SampleCount(d, iv) == d \div iv

CountSamples ==
    /\ pc = "samples"
    /\ samples' = SampleCount(duration, interval)
    /\ pc' = "loop"
    /\ UNCHANGED <<inputs, i, logs, net_prev, disk_prev, tickv, hostv, writev, exc, hist>>

----------------------------------------------------------------------------
(* collect_telemetry, lines 127-178: the loop.                             *)

(* line 128: for i in range(samples); when the range is used up control    *)
(* leaves the try block for line 184.                                      *)
LoopContinues(n, total) == n < total

LoopNext ==
    /\ pc = "loop"
    /\ IF LoopContinues(i, samples)
       THEN /\ pc' = "ts"
            /\ hist' = [hist EXCEPT !.ticks = @ + 1]
       ELSE /\ pc' = "write"
            /\ UNCHANGED hist
    /\ UNCHANGED <<inputs, loopv, tickv, hostv, writev, exc>>

(* lines 131-132: ts = time.time(); time_h = strftime(...)                 *)
ReadTime ==
    /\ pc = "ts"
    /\ tick' = [tick EXCEPT !.ts = clock, !.time_h = HumanTime(clock)]
    /\ pc' = "battery"
    /\ UNCHANGED <<inputs, loopv, piter, processes, top_cpu, top_mem, hostv, writev,
                   exc, hist>>

(* lines 134-135: charging = battery.power_plugged if battery else False   *)
Charging(b) == IF b = "absent" THEN FALSE ELSE b = "plugged"

ReadBattery ==
    /\ pc = "battery"
    /\ tick' = [tick EXCEPT !.charging = Charging(battery)]
    /\ pc' = "cpu"
    /\ UNCHANGED <<inputs, loopv, piter, processes, top_cpu, top_mem, hostv, writev,
                   exc, hist>>

(* line 137: cpu = psutil.cpu_percent(interval=interval) blocks for        *)
(* interval seconds, during which the host's counters move.                *)
ReadCpu ==
    /\ pc = "cpu"
    /\ \E c \in CpuReadings : tick' = [tick EXCEPT !.cpu = c]
    /\ clock' = clock + interval
    /\ os_counters' \in NextCounters(os_counters)
    /\ pc' = "mem"
    /\ UNCHANGED <<inputs, loopv, piter, processes, top_cpu, top_mem, battery, writev,
                   exc, hist>>

(* line 138: mem = psutil.virtual_memory()                                 *)
ReadMem ==
    /\ pc = "mem"
    /\ \E m \in MemReadings : tick' = [tick EXCEPT !.mem = m]
    /\ pc' = "net"
    /\ UNCHANGED <<inputs, loopv, piter, processes, top_cpu, top_mem, hostv, writev,
                   exc, hist>>

(* line 140: net_now = psutil.net_io_counters()                            *)
ReadNet ==
    /\ pc = "net"
    /\ tick' = [tick EXCEPT !.net_now = NetOf(os_counters)]
    /\ pc' = "disk"
    /\ UNCHANGED <<inputs, loopv, piter, processes, top_cpu, top_mem, hostv, writev,
                   exc, hist>>

(* line 141: disk_now = psutil.disk_io_counters()                          *)
ReadDisk ==
    /\ pc = "disk"
    /\ tick' = [tick EXCEPT !.disk_now = DiskOf(os_counters)]
    /\ hist' = [hist EXCEPT !.counters =
                    Append(@, [net |-> tick.net_now, disk |-> DiskOf(os_counters)])]
    /\ pc' = "rates"
    /\ UNCHANGED <<inputs, loopv, piter, processes, top_cpu, top_mem, hostv, writev, exc>>

(* lines 143-146: (now - prev) / 1024 / interval, as a fraction.           *)
RatePerTick(now, prev, iv) == [num |-> now - prev, den |-> KiB]

RateClamped(now, prev, iv) ==
    [num |-> IF now < prev THEN 0 ELSE now - prev, den |-> KiB * iv]

Rate(now, prev, iv) == [num |-> now - prev, den |-> KiB * iv]

(* line 148: net_prev, disk_prev = net_now, disk_now                       *)
NewPrevKeepsBaseline(now, prev) == prev

NewPrev(now, prev) == now

ComputeRates ==
    /\ pc = "rates"
    /\ tick' = [tick EXCEPT
          !.net_sent = Rate(tick.net_now.bytes_sent, net_prev.bytes_sent, interval),
          !.net_recv = Rate(tick.net_now.bytes_recv, net_prev.bytes_recv, interval),
          !.disk_r = Rate(tick.disk_now.read_bytes, disk_prev.read_bytes, interval),
          !.disk_w = Rate(tick.disk_now.write_bytes, disk_prev.write_bytes, interval)]
    /\ net_prev' = NewPrev(tick.net_now, net_prev)
    /\ disk_prev' = NewPrev(tick.disk_now, disk_prev)
    /\ pc' = "iter"
    /\ UNCHANGED <<inputs, samples, i, logs, piter, processes, top_cpu, top_mem, hostv,
                   writev, exc, hist>>

(* lines 150-151: processes = []; psutil.process_iter([...])               *)
ProcIter ==
    /\ pc = "iter"
    /\ processes' = <<>>
    /\ \E e \in Enumerations :
        /\ piter' = e
        /\ pc' = IF e = <<>> THEN "rank" ELSE "proc"
    /\ hist' = [hist EXCEPT !.okreads = 0]
    /\ UNCHANGED <<inputs, loopv, tick, top_cpu, top_mem, hostv, writev, exc>>

(* lines 152-160: append the process's dict, or `continue` when reading    *)
(* it raised.                                                              *)
ProcEntry(p) == [pid |-> p.pid, name |-> p.name, cpu |-> p.cpu, mem |-> p.mem]

ProcRead ==
    /\ pc = "proc"
    /\ piter # <<>>
    /\ IF Head(piter).raises
       THEN UNCHANGED <<processes, hist>>
       ELSE /\ processes' = Append(processes, ProcEntry(Head(piter)))
            /\ hist' = [hist EXCEPT !.okreads = @ + 1]
    /\ piter' = Tail(piter)
    /\ pc' = IF Tail(piter) = <<>> THEN "rank" ELSE "proc"
    /\ UNCHANGED <<inputs, loopv, tick, top_cpu, top_mem, hostv, writev, exc>>

(* lines 162-163: the two sorted(...)[:10]; a None memory share among two  *)
(* or more processes makes sorted raise TypeError, which nothing catches.  *)
RankProcesses ==
    /\ pc = "rank"
    /\ IF SortRaises(processes)
       THEN /\ top_cpu' = TopCpu(processes)
            /\ exc' = "TypeError"
            /\ pc' = "crashed"
            /\ hist' = [hist EXCEPT !.failed = Some([phase |-> "running", m |-> Len(logs),
                                                     at |-> "rank"])]
            /\ UNCHANGED top_mem
       ELSE /\ top_cpu' = TopCpu(processes)
            /\ top_mem' = TopMem(processes)
            /\ pc' = "append"
            /\ UNCHANGED <<exc, hist>>
    /\ UNCHANGED <<inputs, loopv, tick, piter, processes, hostv, writev>>

(* lines 165-178: logs.append({...}).  The locals of the iteration are not *)
(* read again before they are assigned, so the model clears them.          *)
Sample ==
    [ts |-> tick.ts,
     time |-> tick.time_h,
     cpu |-> tick.cpu,
     ram |-> tick.mem.percent,
     ram_gb |-> Round2(tick.mem.used_mib, KiB),
     disk_r |-> Round2(tick.disk_r.num, tick.disk_r.den),
     disk_w |-> Round2(tick.disk_w.num, tick.disk_w.den),
     net_s |-> Round2(tick.net_sent.num, tick.net_sent.den),
     net_r |-> Round2(tick.net_recv.num, tick.net_recv.den),
     charging |-> tick.charging,
     top_cpu |-> top_cpu,
     top_mem |-> top_mem]

(* An append that puts the new Sample in front of the record.              *)
AppendSampleInFront ==
    /\ pc = "append"
    /\ logs' = <<Sample>> \o logs
    /\ i' = i + 1
    /\ hist' = [hist EXCEPT !.nread = Append(@, hist.okreads)]
    /\ tick' = NoTick
    /\ processes' = <<>>
    /\ top_cpu' = <<>>
    /\ top_mem' = <<>>
    /\ pc' = "loop"
    /\ UNCHANGED <<inputs, samples, net_prev, disk_prev, piter, hostv, writev, exc>>

AppendSample ==
    /\ pc = "append"
    /\ logs' = Append(logs, Sample)
    /\ i' = i + 1
    /\ hist' = [hist EXCEPT !.nread = Append(@, hist.okreads)]
    /\ tick' = NoTick
    /\ processes' = <<>>
    /\ top_cpu' = <<>>
    /\ top_mem' = <<>>
    /\ pc' = "loop"
    /\ UNCHANGED <<inputs, samples, net_prev, disk_prev, piter, hostv, writev, exc>>

(* A handler that writes the record itself and then falls through to the  *)
(* write of line 184.                                                      *)
HandleInterruptAlsoWrites ==
    /\ pc = "interrupted"
    /\ tick' = NoTick
    /\ piter' = <<>>
    /\ processes' = <<>>
    /\ top_cpu' = <<>>
    /\ top_mem' = <<>>
    /\ w' = [fields |-> Fields, k |-> 0, arg |-> logs, label |-> label]
    /\ hist' = [hist EXCEPT !.writes = @ + 1]
    /\ pc' = "write"
    /\ UNCHANGED <<inputs, loopv, hostv, file, reported, exc>>

(* A handler that stores what the cut iteration had gathered so far.       *)
HandleInterruptKeepsPartial ==
    /\ pc = "interrupted"
    /\ logs' = Append(logs, Sample)
    /\ tick' = NoTick
    /\ piter' = <<>>
    /\ processes' = <<>>
    /\ top_cpu' = <<>>
    /\ top_mem' = <<>>
    /\ pc' = "write"
    /\ UNCHANGED <<inputs, samples, i, net_prev, disk_prev, hostv, writev, exc, hist>>

(* lines 180-181: except KeyboardInterrupt: print(...).  The locals of the *)
(* cut iteration are not read again, so the model clears them.             *)
HandleInterrupt ==
    /\ pc = "interrupted"
    /\ tick' = NoTick
    /\ piter' = <<>>
    /\ processes' = <<>>
    /\ top_cpu' = <<>>
    /\ top_mem' = <<>>
    /\ pc' = "write"
    /\ UNCHANGED <<inputs, loopv, hostv, writev, exc, hist>>

----------------------------------------------------------------------------
(* collect_telemetry line 184 and write_csv, lines 48-99.                  *)

(* line 184: write_csv(filename_base, label, logs, storage_dir); lines     *)
(* 50-64 build the field list.                                             *)
WriteArgReversed(record) == [k \in 1..Len(record) |-> record[Len(record) + 1 - k]]

WriteArg(record) == record

CallWriteCsv ==
    /\ pc = "write"
    /\ w' = [fields |-> Fields, k |-> 0, arg |-> WriteArg(logs), label |-> label]
    /\ hist' = [hist EXCEPT !.writes = @ + 1]
    /\ pc' = "open"
    /\ UNCHANGED <<inputs, loopv, tickv, hostv, file, reported, exc>>

(* line 67: open(file, "w", ...) truncates or creates the file.            *)
OpenFile ==
    /\ pc = "open"
    /\ file' = [state |-> "open", header |-> <<>>, rows |-> <<>>]
    /\ pc' = "header"
    /\ UNCHANGED <<inputs, loopv, tickv, hostv, w, reported, exc, hist>>

(* line 67 raising OSError: nothing was opened.  Lines 98-99 catch the     *)
(* error and print it; write_csv returns None, line 185 prints and         *)
(* collect_telemetry ends.                                                 *)
OpenFails ==
    /\ pc = "open"
    /\ reported' = "returned"
    /\ pc' = "finished"
    /\ UNCHANGED <<inputs, loopv, tickv, hostv, file, w, exc, hist>>

(* lines 68-69: csv.DictWriter(f, fieldnames=fields).writeheader()         *)
WriteHeader ==
    /\ pc = "header"
    /\ file' = [file EXCEPT !.header = w.fields]
    /\ w' = [w EXCEPT !.k = 1]
    /\ pc' = IF w.arg = <<>> THEN "close" ELSE "row"
    /\ UNCHANGED <<inputs, loopv, tickv, hostv, reported, exc, hist>>

(* lines 71-96: one row per log; writerow raises ValueError for a key that *)
(* is no field: the `with` block closes the file, lines 98-99 catch the    *)
(* error and print it, and write_csv returns None.                         *)
WriteRow ==
    /\ pc = "row"
    /\ w.k <= Len(w.arg)
    /\ LET row == RowDict(w.arg[w.k], w.label)
       IN  IF RowRaises(row, w.fields)
           THEN /\ file' = [file EXCEPT !.state = "closed"]
                /\ reported' = "returned"
                /\ pc' = "finished"
                /\ UNCHANGED w
           ELSE /\ file' = [file EXCEPT !.rows = Append(@, RowLine(row, w.fields))]
                /\ w' = [w EXCEPT !.k = @ + 1]
                /\ pc' = IF w.k = Len(w.arg) THEN "close" ELSE "row"
                /\ UNCHANGED reported
    /\ UNCHANGED <<inputs, loopv, tickv, hostv, exc, hist>>

(* A write to the open file raising OSError (lines 69, 96): the `with`     *)
(* block closes the file, lines 98-99 catch the error and print it, and    *)
(* write_csv returns None; line 185 prints and collect_telemetry ends.     *)
WriteFails ==
    /\ pc \in {"header", "row"}
    /\ file' = [file EXCEPT !.state = "closed"]
    /\ reported' = "returned"
    /\ pc' = "finished"
    /\ UNCHANGED <<inputs, loopv, tickv, hostv, w, exc, hist>>

(* end of the `with` block and line 97; write_csv returns None, line 185   *)
(* prints and collect_telemetry ends.                                      *)
CloseFile ==
    /\ pc = "close"
    /\ file' = [file EXCEPT !.state = "closed"]
    /\ reported' = "returned"
    /\ pc' = "finished"
    /\ UNCHANGED <<inputs, loopv, tickv, hostv, w, exc, hist>>

----------------------------------------------------------------------------
(* Failures and cancellation.                                              *)

(* A psutil call of collect_telemetry raising an error that is no          *)
(* KeyboardInterrupt: lines 115-123 are outside any try, and the try of    *)
(* line 127 has no handler for it, so it leaves collect_telemetry.         *)
MetricFailure ==
    /\ pc \in MetricPcs
    /\ exc' = "Error"
    /\ pc' = "crashed"
    /\ hist' = [hist EXCEPT !.failed = Some([phase |-> Phase(pc), m |-> Len(logs),
                                             at |-> pc])]
    /\ UNCHANGED <<inputs, loopv, tickv, hostv, writev>>

Cancelled(swallowed) ==
    [hist EXCEPT !.cancel = Some([phase |-> Phase(pc), m |-> Len(logs),
                                  swallowed |-> swallowed])]

(* KeyboardInterrupt in lines 115-125, outside every try: it leaves        *)
(* collect_telemetry.                                                      *)
InterruptPriming ==
    /\ pc \in PrimingPcs
    /\ hist.cancel = None
    /\ exc' = "KeyboardInterrupt"
    /\ pc' = "crashed"
    /\ hist' = Cancelled(FALSE)
    /\ UNCHANGED <<inputs, loopv, tickv, hostv, writev>>

(* KeyboardInterrupt inside the try of lines 118 / 153-158: the bare       *)
(* except catches it like any failed read; the loop goes on.               *)
InterruptPrimingRead ==
    /\ pc = "prime_proc"
    /\ piter # <<>>
    /\ hist.cancel = None
    /\ piter' = Tail(piter)
    /\ pc' = IF Tail(piter) = <<>> THEN "prime_net" ELSE "prime_proc"
    /\ hist' = Cancelled(TRUE)
    /\ UNCHANGED <<inputs, loopv, tick, processes, top_cpu, top_mem, hostv, writev, exc>>

InterruptProcRead ==
    /\ pc = "proc"
    /\ piter # <<>>
    /\ hist.cancel = None
    /\ piter' = Tail(piter)
    /\ pc' = IF Tail(piter) = <<>> THEN "rank" ELSE "proc"
    /\ hist' = Cancelled(TRUE)
    /\ UNCHANGED <<inputs, loopv, tick, processes, top_cpu, top_mem, hostv, writev, exc>>

(* KeyboardInterrupt inside the try of line 127 and outside the inner try: *)
(* line 180 catches it.                                                    *)
InterruptRunning ==
    /\ pc \in RunningPcs
    /\ hist.cancel = None
    /\ pc' = "interrupted"
    /\ hist' = Cancelled(FALSE)
    /\ UNCHANGED <<inputs, loopv, tickv, hostv, writev, exc>>

(* A cancellation of the write that leaves the file as it is.              *)
InterruptWritingLeavesOpen ==
    /\ pc \in WritingPcs
    /\ hist.cancel = None
    /\ exc' = "KeyboardInterrupt"
    /\ pc' = "crashed"
    /\ hist' = Cancelled(FALSE)
    /\ UNCHANGED <<inputs, loopv, tickv, hostv, file, w, reported>>

(* KeyboardInterrupt in write_csv or around its call: `except Exception`   *)
(* does not catch it; the `with` block closes an open file.                *)
InterruptWriting ==
    /\ pc \in WritingPcs
    /\ hist.cancel = None
    /\ file' = IF file.state = "open" THEN [file EXCEPT !.state = "closed"] ELSE file
    /\ exc' = "KeyboardInterrupt"
    /\ pc' = "crashed"
    /\ hist' = Cancelled(FALSE)
    /\ UNCHANGED <<inputs, loopv, tickv, hostv, w, reported>>

----------------------------------------------------------------------------

Next ==
    \/ PrimeCpu \/ PrimeIter \/ PrimeProc \/ PrimeNet \/ PrimeDisk \/ CountSamples
    \/ LoopNext \/ ReadTime \/ ReadBattery \/ ReadCpu \/ ReadMem \/ ReadNet
    \/ ReadDisk \/ ComputeRates \/ ProcIter \/ ProcRead \/ RankProcesses
    \/ AppendSample \/ HandleInterrupt
    \/ CallWriteCsv \/ OpenFile \/ OpenFails \/ WriteHeader \/ WriteRow
    \/ WriteFails \/ CloseFile
    \/ MetricFailure
    \/ InterruptPriming \/ InterruptPrimingRead \/ InterruptProcRead
    \/ InterruptRunning \/ InterruptWriting

Spec == Init /\ [][Next]_vars

Terminated == pc \in {"finished", "crashed"}

----------------------------------------------------------------------------
(* Properties.                                                             *)

Cancel == hist.cancel[1]
Failure == hist.failed[1]

(* n is floor(d / iv), stated without division.                            *)
IsFloorOf(n, d, iv) == n * iv <= d /\ d < (n + 1) * iv

(* C1: with no cancellation and no failure, the run does not end with an   *)
(* exception, and once the loop is over it has begun exactly               *)
(* floor(duration / interval) iterations, logs has exactly that many       *)
(* samples, and the record handed to write_csv has that length.            *)
C1_TickCount ==
    (hist.cancel = None /\ hist.failed = None) =>
        /\ pc # "crashed"
        /\ pc \in WritingPcs \cup {"finished"} =>
             /\ IsFloorOf(hist.ticks, duration, interval)
             /\ Len(logs) = hist.ticks
             /\ hist.writes = 1 => Len(w.arg) = hist.ticks

C1_Witness ==
    /\ pc = "finished"
    /\ hist.cancel = None
    /\ hist.failed = None
    /\ duration % interval # 0
    /\ hist.ticks = 2
    /\ Len(w.arg) = 2

(* C2: a KeyboardInterrupt that arrives in the loop after m samples, at    *)
(* any statement of iteration m + 1, ends the sampling: no later iteration *)
(* begins, logs keeps exactly those m samples, and the run ends with       *)
(* write_csv called on them.                                               *)
C2_CancelStopsLoop ==
    (hist.cancel # None /\ Cancel.phase = "running" /\ Cancel.m < samples) =>
        /\ Len(logs) = Cancel.m
        /\ hist.ticks <= Cancel.m + 1
        /\ Terminated => (hist.writes = 1 /\ w.arg = logs)

(* C3: a psutil read of the loop that raises in iteration m + 1 ends the   *)
(* run with write_csv called on the m samples collected so far.            *)
C3_FailureStillWrites ==
    (hist.failed # None /\ Failure.phase = "running" /\ Failure.at \in MetricPcs
        /\ Terminated) =>
        /\ hist.writes = 1
        /\ Len(w.arg) = Failure.m

(* C4: a KeyboardInterrupt that arrives during priming ends the run        *)
(* finished, with write_csv called on an empty record.                     *)
C4_PrimingCancelWritesEmpty ==
    (hist.cancel # None /\ Cancel.phase = "priming") =>
        /\ logs = <<>>
        /\ Terminated => (pc = "finished" /\ hist.writes = 1 /\ w.arg = <<>>)

(* C5: write_csv is called at most once; a run that ends finished has      *)
(* called it exactly once; and once it has been called no statement of     *)
(* priming or of the loop runs again and logs stays the record that was    *)
(* handed over.                                                            *)
C5_WrittenOnceAtEnd ==
    /\ hist.writes <= 1
    /\ pc = "finished" => hist.writes = 1
    /\ hist.writes >= 1 =>
         /\ pc \notin PrimingPcs \cup RunningPcs \cup {"interrupted", "write"}
         /\ w.arg = logs

C5_Witness ==
    /\ pc = "finished"
    /\ hist.cancel # None
    /\ Cancel.phase = "running"
    /\ ~Cancel.swallowed
    /\ Len(logs) = 1
    /\ hist.writes = 1
    /\ file.state = "closed"
    /\ Len(file.rows) = 1

Triple == <<"pid", "name", "value">>

BaseInOrder(h) ==
    /\ Len(h) = 71
    /\ h[1] = Col("base", 0, "timestamp_unix")
    /\ h[2] = Col("base", 0, "timestamp_human")
    /\ h[3] = Col("base", 0, "hw_label")
    /\ h[4] = Col("base", 0, "cpu_percent")
    /\ h[5] = Col("base", 0, "ram_percent")
    /\ h[6] = Col("base", 0, "ram_used_gb")
    /\ h[7] = Col("base", 0, "disk_read_kb_s")
    /\ h[8] = Col("base", 0, "disk_write_kb_s")
    /\ h[9] = Col("base", 0, "net_sent_kb_s")
    /\ h[10] = Col("base", 0, "net_recv_kb_s")
    /\ h[11] = Col("base", 0, "charging")

(* C6 as stated: the header is the 11 base columns, then the ten top_cpu   *)
(* triples, then the ten top_mem triples.                                  *)
C6_GroupedOrder ==
    file.header # <<>> =>
        /\ BaseInOrder(file.header)
        /\ \A n \in 1..10 : \A j \in 1..3 :
             /\ file.header[11 + 3 * (n - 1) + j] = Col("top_cpu", n, Triple[j])
             /\ file.header[41 + 3 * (n - 1) + j] = Col("top_mem", n, Triple[j])

(* C6 amended: the header is the 11 base columns, then for n = 1..10 in    *)
(* turn the top_cpu_n triple immediately followed by the top_mem_n triple. *)
C6_InterleavedOrder ==
    file.header # <<>> =>
        /\ BaseInOrder(file.header)
        /\ \A n \in 1..10 : \A j \in 1..3 :
             /\ file.header[11 + 6 * (n - 1) + j] = Col("top_cpu", n, Triple[j])
             /\ file.header[11 + 6 * (n - 1) + 3 + j] = Col("top_mem", n, Triple[j])

C6_Witness ==
    /\ file.header # <<>>
    /\ Len(file.rows) >= 1

(* The value a sample carries for a base column.                           *)
BaseValue(log, lbl, name) ==
    CASE name = "timestamp_unix" -> Some(log.ts)
      [] name = "timestamp_human" -> Some(log.time)
      [] name = "hw_label" -> Some(lbl)
      [] name = "cpu_percent" -> Some(log.cpu)
      [] name = "ram_percent" -> Some(log.ram)
      [] name = "ram_used_gb" -> Some(log.ram_gb)
      [] name = "disk_read_kb_s" -> Some(log.disk_r)
      [] name = "disk_write_kb_s" -> Some(log.disk_w)
      [] name = "net_sent_kb_s" -> Some(log.net_s)
      [] name = "net_recv_kb_s" -> Some(log.net_r)
      [] name = "charging" -> Some(log.charging)

(* The cell of process p for a field of its triple; a name or memory share *)
(* that is None is written as the empty string.                            *)
SlotValue(p, g, f) ==
    CASE f = "pid" -> Some(p.pid)
      [] f = "name" -> p.name
      [] f = "value" /\ g = "top_cpu" -> Some(p.cpu)
      [] f = "value" /\ g = "top_mem" -> p.mem

ExpectedCell(log, lbl, col) ==
    IF col[1] = "base" THEN BaseValue(log, lbl, col[3])
    ELSE LET top == IF col[1] = "top_cpu" THEN log.top_cpu ELSE log.top_mem
         IN  IF col[2] > Len(top) THEN Blank
             ELSE SlotValue(top[col[2]], col[1], col[3])

(* C7: every row written has 71 cells, one per header column and in the    *)
(* header's order; the cell of a ranking slot beyond the sample's list is  *)
(* blank, the cell of a slot within it holds that process's pid, name or   *)
(* value, and a base cell holds the sample's value.                        *)
C7_SchemaStable ==
    \A j \in 1..Len(file.rows) :
        /\ Len(file.rows[j]) = 71
        /\ Len(file.rows[j]) = Len(file.header)
        /\ \A c \in 1..Len(file.header) :
             file.rows[j][c] = ExpectedCell(w.arg[j], w.label, file.header[c])

C7_Witness ==
    /\ Len(file.rows) = 2
    /\ \E j \in 1..2 : Len(w.arg[j].top_cpu) = 10 /\ Len(w.arg[j].top_mem) = 10
    /\ \E j \in 1..2 : Len(w.arg[j].top_cpu) \in 1..9
    /\ \E j \in 1..2 : \E c \in 1..71 :
         /\ file.header[c] = Col("top_mem", 3, "pid")
         /\ file.rows[j][c] = Blank

Counters(k) == hist.counters[k]

Recorded(now, prev) == Round2(now - prev, 1024 * interval)

(* C8: the rates of sample k are computed from the counters read in tick k *)
(* minus those read in tick k - 1 (tick 0 is the priming capture), and in  *)
(* the loop net_prev / disk_prev are the counters read last (at line 143,  *)
(* the ones read before the iteration's own).                              *)
C8_TickOverTick ==
    /\ \A k \in 1..Len(logs) :
         /\ logs[k].disk_r = Recorded(Counters(k + 1).disk.read_bytes,
                                      Counters(k).disk.read_bytes)
         /\ logs[k].disk_w = Recorded(Counters(k + 1).disk.write_bytes,
                                      Counters(k).disk.write_bytes)
         /\ logs[k].net_s = Recorded(Counters(k + 1).net.bytes_sent,
                                     Counters(k).net.bytes_sent)
         /\ logs[k].net_r = Recorded(Counters(k + 1).net.bytes_recv,
                                     Counters(k).net.bytes_recv)
    /\ pc \in RunningPcs =>
         LET n == Len(hist.counters)
             last == IF pc = "rates" THEN Counters(n - 1) ELSE Counters(n)
         IN  /\ net_prev = last.net
             /\ disk_prev = last.disk

C8_Witness ==
    /\ Len(logs) = 2
    /\ Counters(3).disk.read_bytes > Counters(2).disk.read_bytes
    /\ Counters(2).disk.read_bytes > Counters(1).disk.read_bytes
    /\ logs[2].disk_r # Recorded(Counters(3).disk.read_bytes, Counters(1).disk.read_bytes)

RatesComputed == pc \in {"iter", "proc", "rank", "append"}

ExactRate(rate, now, prev) ==
    now >= prev => rate.num * (1024 * interval) = (now - prev) * rate.den

(* r hundredths is (now - prev) / 1024 / interval rounded to two decimals. *)
RoundedRate(r, now, prev) ==
    now >= prev =>
        LET err == 100 * (now - prev) - r * (1024 * interval)
        IN  2 * err <= 1024 * interval /\ -2 * err <= 1024 * interval

(* C9: for counters that did not decrease, the rate computed in a tick is  *)
(* (curr - prev) / 1024 / interval for each of the four counters, the      *)
(* recorded rate is that value rounded to two decimals, and with interval  *)
(* 5 and a disk-read counter that grew by 1024 bytes the sample's          *)
(* disk_read_kb_s is 0.2.                                                  *)
C9_DeltaCorrect ==
    /\ RatesComputed =>
         LET n == Len(hist.counters)
         IN  /\ ExactRate(tick.disk_r, Counters(n).disk.read_bytes,
                          Counters(n - 1).disk.read_bytes)
             /\ ExactRate(tick.disk_w, Counters(n).disk.write_bytes,
                          Counters(n - 1).disk.write_bytes)
             /\ ExactRate(tick.net_sent, Counters(n).net.bytes_sent,
                          Counters(n - 1).net.bytes_sent)
             /\ ExactRate(tick.net_recv, Counters(n).net.bytes_recv,
                          Counters(n - 1).net.bytes_recv)
    /\ \A k \in 1..Len(logs) :
         /\ RoundedRate(logs[k].disk_r, Counters(k + 1).disk.read_bytes,
                        Counters(k).disk.read_bytes)
         /\ RoundedRate(logs[k].disk_w, Counters(k + 1).disk.write_bytes,
                        Counters(k).disk.write_bytes)
         /\ RoundedRate(logs[k].net_s, Counters(k + 1).net.bytes_sent,
                        Counters(k).net.bytes_sent)
         /\ RoundedRate(logs[k].net_r, Counters(k + 1).net.bytes_recv,
                        Counters(k).net.bytes_recv)
         /\ (interval = 5
             /\ Counters(k + 1).disk.read_bytes = Counters(k).disk.read_bytes + 1024)
            => logs[k].disk_r = 20

C9_Witness ==
    /\ interval = 5
    /\ duration = 10
    /\ pc = "finished"
    /\ Len(logs) = 2
    /\ \A k \in 1..2 :
         /\ Counters(k + 1).disk.read_bytes = Counters(k).disk.read_bytes + 1024
         /\ logs[k].disk_r = 20

(* C10: a tick in which n processes were read without raising gives a      *)
(* top_cpu and a top_mem of exactly min(n, 10) entries.                    *)
C10_RankingSize ==
    /\ pc = "append" =>
         /\ Len(top_cpu) = Min(hist.okreads, 10)
         /\ Len(top_mem) = Min(hist.okreads, 10)
    /\ \A k \in 1..Len(logs) :
         /\ Len(logs[k].top_cpu) = Min(hist.nread[k], 10)
         /\ Len(logs[k].top_mem) = Min(hist.nread[k], 10)

C10_Witness ==
    /\ Len(logs) = 2
    /\ \E k \in 1..2 : hist.nread[k] > 10 /\ Len(logs[k].top_cpu) = 10
    /\ \E k \in 1..2 : hist.nread[k] \in 1..9 /\ Len(logs[k].top_cpu) = hist.nread[k]

Descending(top, key) ==
    \A k \in 1..(Len(top) - 1) : KeyOf(top[k], key) >= KeyOf(top[k + 1], key)

(* No process of `surviving` that is not in `top` has a strictly greater   *)
(* value than one that is in it.                                           *)
HoldsHighest(top, surviving, key) ==
    /\ Range(top) \subseteq Range(surviving)
    /\ \A p \in Range(surviving) \ Range(top) :
         \A q \in Range(top) : KeyOf(p, key) <= KeyOf(q, key)

(* C11: top_cpu is sorted by cpu share descending and top_mem by memory    *)
(* share descending, in the tick's ranking and in every Sample, and no     *)
(* surviving process left out of a list has a strictly greater value than  *)
(* one that is in it.                                                      *)
C11_RankingOrder ==
    /\ pc = "append" =>
         /\ Descending(top_cpu, "cpu")
         /\ Descending(top_mem, "mem")
         /\ HoldsHighest(top_cpu, processes, "cpu")
         /\ HoldsHighest(top_mem, processes, "mem")
    /\ \A k \in 1..Len(logs) :
         /\ Descending(logs[k].top_cpu, "cpu")
         /\ Descending(logs[k].top_mem, "mem")

C11_Witness ==
    /\ pc = "append"
    /\ Len(processes) > SliceLen
    /\ Range(processes) \ Range(top_cpu) # {}
    /\ Range(processes) \ Range(top_mem) # {}
    /\ top_cpu[1].cpu > top_cpu[SliceLen].cpu
    /\ top_mem[1].mem[1] > top_mem[SliceLen].mem[1]
    /\ Len(logs) = 1
    /\ Len(logs[1].top_cpu) = 2
    /\ top_cpu # Slice(processes, SliceLen)
    /\ top_mem # Slice(processes, SliceLen)

(* C12: the ranking never raises: whichever processes failed to read or   *)
(* came with an attribute that could not be read, the run is never ended   *)
(* by an error raised in the ranking, the lists are ranked on the          *)
(* surviving processes, and no surviving process gives two empty lists.    *)
C12_RankingNeverRaises ==
    /\ exc # "TypeError"
    /\ ~(pc = "crashed" /\ hist.failed # None /\ Failure.at = "rank")
    /\ pc = "append" =>
         /\ Len(top_cpu) = Min(Len(processes), SliceLen)
         /\ Len(top_mem) = Min(Len(processes), SliceLen)
         /\ processes = <<>> => top_cpu = <<>> /\ top_mem = <<>>

(* write_csv has ended without writing the header and every row.          *)
WriteFailed ==
    /\ pc = "finished"
    /\ file.header # w.fields \/ Len(file.rows) < Len(w.arg)

(* C13: when write_csv fails with an I/O error its caller can tell: what   *)
(* the caller gets is not the plain return of a successful write; and logs *)
(* is still the record that was handed to write_csv.                       *)
C13_WriteFailureReported ==
    /\ WriteFailed => reported # "returned"
    /\ pc \in {"open", "header", "row", "close", "finished"} => logs = w.arg

(* The cell of data row j under the base column `name`.                   *)
BaseCell(j, name) ==
    LET c == CHOOSE n \in 1..Len(file.header) : file.header[n] = Col("base", 0, name)
    IN  file.rows[j][c]

(* C14: the data rows are the Samples of logs, one row each and in the     *)
(* record's order (row j carries the values of Sample j), every row's      *)
(* hw_label is the run's label, and when every row has been written there  *)
(* are exactly Len(logs) data rows after the header.                       *)
C14_RowPerSample ==
    /\ Len(file.rows) <= Len(logs)
    /\ \A j \in 1..Len(file.rows) :
         /\ BaseCell(j, "hw_label") = <<label>>
         /\ BaseCell(j, "timestamp_unix") = <<logs[j].ts>>
         /\ BaseCell(j, "timestamp_human") = <<logs[j].time>>
         /\ BaseCell(j, "cpu_percent") = <<logs[j].cpu>>
         /\ BaseCell(j, "disk_read_kb_s") = <<logs[j].disk_r>>
         /\ BaseCell(j, "net_recv_kb_s") = <<logs[j].net_r>>
    /\ pc = "row" => Len(file.rows) = w.k - 1
    /\ pc = "close" =>
         /\ file.header = Fields
         /\ Len(file.rows) = Len(logs)

C14_Witness ==
    /\ pc = "finished"
    /\ file.state = "closed"
    /\ Len(logs) = 2
    /\ Len(file.rows) = 2
    /\ file.rows[1] # file.rows[2]
    /\ BaseCell(1, "timestamp_unix") # BaseCell(2, "timestamp_unix")
    /\ BaseCell(2, "hw_label") = <<label>>

(* The four cumulative counters of capture k, and the four rates of a     *)
(* Sample, in the same order.                                              *)
Readings(k) ==
    <<Counters(k).disk.read_bytes, Counters(k).disk.write_bytes,
      Counters(k).net.bytes_sent, Counters(k).net.bytes_recv>>

RecordedRates(log) == <<log.disk_r, log.disk_w, log.net_s, log.net_r>>

TickRates == <<tick.disk_r, tick.disk_w, tick.net_sent, tick.net_recv>>

(* A decrease of at least half a hundredth of a KiB/s does not round to 0. *)
AboveResolution(now, prev) == 200 * (prev - now) >= 1024 * interval

(* C15: when a counter read in tick k is below the reading before it, the  *)
(* rate computed in that tick is negative, the rate recorded in Sample k   *)
(* is that negative value rounded to two decimals (not zero, not an        *)
(* absolute value), and the rate of Sample k + 1 is computed against the   *)
(* decreased reading.                                                      *)
C15_DecreasePropagated ==
    /\ RatesComputed =>
         LET n == Len(hist.counters)
         IN  \A c \in 1..4 :
                 Readings(n)[c] < Readings(n - 1)[c] =>
                     /\ TickRates[c].num = Readings(n)[c] - Readings(n - 1)[c]
                     /\ TickRates[c].num < 0
                     /\ TickRates[c].den > 0
    /\ \A k \in 1..Len(logs) : \A c \in 1..4 :
         Readings(k + 1)[c] < Readings(k)[c] =>
             /\ RecordedRates(logs[k])[c] = Recorded(Readings(k + 1)[c], Readings(k)[c])
             /\ RecordedRates(logs[k])[c] <= 0
             /\ AboveResolution(Readings(k + 1)[c], Readings(k)[c])
                    => RecordedRates(logs[k])[c] < 0
             /\ k < Len(logs) =>
                    RecordedRates(logs[k + 1])[c]
                        = Recorded(Readings(k + 2)[c], Readings(k + 1)[c])

C15_Witness ==
    /\ Len(logs) = 2
    /\ \A c \in 1..4 :
         /\ Readings(2)[c] < Readings(1)[c]
         /\ RecordedRates(logs[1])[c] < 0
         /\ Readings(3)[c] > Readings(2)[c]
         /\ Readings(3)[c] < Readings(1)[c]
         /\ RecordedRates(logs[2])[c] > 0

(* The place of process x in the enumeration order of the tick.           *)
PosIn(surviving, x) == CHOOSE k \in 1..Len(surviving) : surviving[k] = x

(* Processes of equal value keep their enumeration order in `top`, and a   *)
(* process cut off was enumerated after every process of equal value that  *)
(* was kept.                                                               *)
StableOnTies(top, surviving, key) ==
    /\ \A a, b \in 1..Len(top) :
         (a < b /\ KeyOf(top[a], key) = KeyOf(top[b], key))
            => PosIn(surviving, top[a]) < PosIn(surviving, top[b])
    /\ \A p \in Range(surviving) \ Range(top) : \A q \in Range(top) :
         KeyOf(p, key) = KeyOf(q, key) => PosIn(surviving, q) < PosIn(surviving, p)

(* C16: among surviving processes of equal cpu share the order in top_cpu  *)
(* is the enumeration order, likewise for equal memory share in top_mem,   *)
(* and when more than 10 processes tie at the cut-off the first ones       *)
(* enumerated are the ones kept.                                           *)
C16_StableOnTies ==
    pc = "append" =>
        /\ StableOnTies(top_cpu, processes, "cpu")
        /\ StableOnTies(top_mem, processes, "mem")
        /\ (Len(processes) > SliceLen
             /\ \A k \in 1..Len(processes) : processes[k].cpu = processes[1].cpu)
            => top_cpu = SubSeq(processes, 1, SliceLen)

C16_Witness ==
    /\ pc = "append"
    /\ Len(processes) > SliceLen
    /\ \A k \in 1..Len(processes) : processes[k].cpu = processes[1].cpu
    /\ top_cpu = SubSeq(processes, 1, SliceLen)
    /\ processes[Len(processes)] \notin Range(top_cpu)
    /\ \E a, b \in 1..Len(top_mem) :
         /\ a < b
         /\ top_mem[a].mem = top_mem[b].mem
         /\ top_mem[a].pid < top_mem[b].pid
    /\ top_mem # SubSeq(processes, 1, SliceLen)

(* C17: the priming pass runs once, before the first iteration, and       *)
(* stores nothing: while it runs and when the loop is entered logs is      *)
(* empty and no local of an iteration is set, no step of it writes logs or *)
(* the iteration's locals, control never returns to it, and a process      *)
(* whose priming read raises is passed over without ending the run and     *)
(* without anything being kept about it.                                   *)
C17_PrimingStoresNothing ==
    /\ [](pc \in PrimingPcs =>
            /\ logs = <<>> /\ i = 0 /\ hist.ticks = 0
            /\ tick = NoTick /\ processes = <<>> /\ top_cpu = <<>> /\ top_mem = <<>>)
    /\ []((pc = "loop" /\ hist.ticks = 0) =>
            /\ logs = <<>>
            /\ tick = NoTick /\ piter = <<>> /\ processes = <<>>
            /\ Len(hist.counters) = 1)
    /\ [][(pc \notin PrimingPcs) => (pc' \notin PrimingPcs)]_vars
    /\ [][(pc \in PrimingPcs) => UNCHANGED <<logs, tick, processes>>]_vars
    /\ [][(pc = "prime_proc" /\ hist'.cancel = hist.cancel) =>
            /\ pc' \in {"prime_proc", "prime_net"}
            /\ piter' = Tail(piter)
            /\ exc' = exc]_vars

(* An exception raised by a process read of the priming pass was passed    *)
(* over, and a later iteration ranks every process of the host.            *)
C17_Witness ==
    /\ pc = "append"
    /\ hist.cancel # None
    /\ Cancel.phase = "priming"
    /\ Cancel.swallowed
    /\ exc = "none"
    /\ Len(logs) = 1
    /\ Len(processes) = MaxProcs
    /\ {processes[k].pid : k \in 1..Len(processes)} = 1..MaxProcs
    /\ Len(top_cpu) = SliceLen

(* C18: logs is append-only and chronological: in every step logs before  *)
(* the step is a prefix of logs after it and at most one Sample longer,    *)
(* the step that completes an iteration appends exactly one Sample, the    *)
(* one of that iteration, at the end, no other step changes logs, and the  *)
(* timestamps of logs increase with the position.                          *)
C18_AppendOnly ==
    /\ [][(Len(logs') \in {Len(logs), Len(logs) + 1})
            /\ SubSeq(logs', 1, Len(logs)) = logs]_vars
    /\ [][(pc = "append" /\ pc' = "loop") =>
            /\ Len(logs') = Len(logs) + 1
            /\ logs'[Len(logs')].ts = tick.ts
            /\ logs'[Len(logs')].top_cpu = top_cpu]_vars
    /\ [][(logs' # logs) => (pc = "append" /\ pc' = "loop")]_vars
    /\ [](\A j, k \in 1..Len(logs) : j < k => logs[j].ts < logs[k].ts)

C18_Witness ==
    /\ pc = "loop"
    /\ Len(logs) = 2
    /\ logs[1].ts < logs[2].ts
    /\ logs[2].ts = logs[1].ts + interval
    /\ logs[1].top_cpu # logs[2].top_cpu

(* C19: the file opened by write_csv is closed on every way out of the    *)
(* write: it is open only while the header and the rows are being written, *)
(* and in no final state of the run, whether the write completed, failed   *)
(* with an I/O error or was cancelled, is it still open.                   *)
C19_FileClosed ==
    /\ Terminated => file.state \in {"absent", "closed"}
    /\ file.state = "open" => pc \in {"header", "row", "close"}
    /\ (pc = "finished" /\ file.header # <<>>) => file.state = "closed"
    /\ (pc = "crashed" /\ hist.cancel # None /\ Cancel.phase = "writing"
            /\ file.header # <<>>) => file.state = "closed"

C19_Witness ==
    /\ pc = "crashed"
    /\ exc = "KeyboardInterrupt"
    /\ Cancel.phase = "writing"
    /\ Len(w.arg) = 2
    /\ Len(file.rows) = 1
    /\ file.state = "closed"

(* The pcs of an iteration that has begun and not yet appended.            *)
MidTickPcs == RunningPcs \ {"loop"}

(* Every field of the Sample was set by its own iteration.                 *)
WholeSample(k) ==
    /\ logs[k].ts = (k - 1) * interval
    /\ logs[k].time = HumanTime(logs[k].ts)
    /\ logs[k].cpu \in CpuReadings
    /\ \E m \in MemReadings :
         logs[k].ram = m.percent /\ logs[k].ram_gb = Round2(m.used_mib, 1024)
    /\ logs[k].charging = Charging(battery)
    /\ logs[k].disk_r = Recorded(Readings(k + 1)[1], Readings(k)[1])
    /\ logs[k].net_r = Recorded(Readings(k + 1)[4], Readings(k)[4])
    /\ Len(logs[k].top_cpu) = Min(hist.nread[k], SliceLen)
    /\ Len(logs[k].top_mem) = Min(hist.nread[k], SliceLen)

(* C20: a Sample is appended only by the last step of an iteration: while  *)
(* an iteration is under way logs holds one Sample per earlier iteration   *)
(* and nothing of the current one, an iteration cut short by a             *)
(* cancellation adds none, every Sample in logs and every row written has  *)
(* all its fields, and the length of logs is the number of completed       *)
(* iterations, at most floor(duration / interval).                         *)
C20_TickAtomic ==
    /\ Len(logs) = i
    /\ pc \in MidTickPcs => Len(logs) = hist.ticks - 1
    /\ pc = "loop" => Len(logs) = hist.ticks
    /\ Len(logs) \in {hist.ticks - 1, hist.ticks} \cap Nat
    /\ Len(logs) * interval <= duration
    /\ (hist.cancel # None /\ Cancel.phase = "running" /\ ~Cancel.swallowed) =>
         /\ Len(logs) = Cancel.m
         /\ pc \notin RunningPcs
    /\ \A k \in 1..Len(logs) : WholeSample(k)
    /\ \A j \in 1..Len(file.rows) :
         /\ Len(file.rows[j]) = Len(Fields)
         /\ \A c \in 1..Len(BaseFields) : file.rows[j][c] # Blank

C20_Witness ==
    /\ pc = "finished"
    /\ hist.cancel # None
    /\ Cancel.phase = "running"
    /\ ~Cancel.swallowed
    /\ Cancel.m = 1
    /\ hist.ticks = 2
    /\ Len(hist.counters) = 3
    /\ samples = 2
    /\ Len(logs) = 1
    /\ Len(file.rows) = 1

=============================================================================
